---- MODULE Spec2Model ----
(***************************************************************************)
(* A model of cguess.py: the lookup cache (class Cache), the package       *)
(* backend (DebianManager), the cache-wrapped lookups and the resolution   *)
(* loop of main().  Strings are strings: paths are built and taken apart   *)
(* the way os.path does it, package names are compared by prefix.          *)
(***************************************************************************)
EXTENDS Naturals, Sequences, FiniteSets, TLC

(***************************************************************************)
(* String helpers (str methods, os.path, re).                              *)
(***************************************************************************)

\* str.startswith
StartsWith(s, p) == Len(p) <= Len(s) /\ SubSeq(s, 1, Len(p)) = p

\* str.endswith
EndsWith(s, p) == Len(p) <= Len(s) /\ SubSeq(s, Len(s) - Len(p) + 1, Len(s)) = p

\* the positions at which p occurs in s
Occurrences(s, p) ==
    {i \in 1..Len(s) : i + Len(p) - 1 <= Len(s) /\ SubSeq(s, i, i + Len(p) - 1) = p}

\* p in s
Contains(s, p) == Occurrences(s, p) # {}

SetMax(S) == CHOOSE m \in S : \A x \in S : x <= m

SetMin(S) == CHOOSE m \in S : \A x \in S : m <= x

\* str.rfind: 0 stands for Python's -1 (positions are 1-based here)
RFind(s, p) == IF Occurrences(s, p) = {} THEN 0 ELSE SetMax(Occurrences(s, p))

\* os.path.join(root, filename), for a relative filename
PathJoin(root, filename) == root \o "/" \o filename

\* os.path.dirname
DirName(path) ==
    LET i == RFind(path, "/")
    IN  IF i = 0 THEN "" ELSE IF i = 1 THEN "/" ELSE SubSeq(path, 1, i - 1)

\* os.path.splitext(path)[0]: cut at the last dot of the last component,
\* unless that dot leads the component
SplitExtRoot(path) ==
    LET slash == RFind(path, "/")
        dot == RFind(path, ".")
    IN  IF dot > slash + 1 THEN SubSeq(path, 1, dot - 1) ELSE path

\* LIB_REGEX = re.compile(r'/lib([^/]+)\.so'), .search(file_path).group(1):
\* the leftmost "/lib" that is followed by a slash-free, non-empty name and
\* ".so"; the name is greedy, so it ends at the last ".so" of the component.
\* The empty set when nothing matches.
LibMatches(file_path) ==
    {i \in Occurrences(file_path, "/lib") :
        \E j \in Occurrences(file_path, ".so") :
            /\ j > i + 4
            /\ ~Contains(SubSeq(file_path, i + 4, j - 1), "/")}

LibName(file_path) ==
    LET i == SetMin(LibMatches(file_path))
        j == SetMax({k \in Occurrences(file_path, ".so") :
                        /\ k > i + 4
                        /\ ~Contains(SubSeq(file_path, i + 4, k - 1), "/")})
    IN  SubSeq(file_path, i + 4, j - 1)

(***************************************************************************)
(* Values.  None is Python's None; a value that may be None is a sequence  *)
(* of length at most one.                                                  *)
(***************************************************************************)

None == <<>>

Some(v) == <<v>>

\* the sequences that list the set S once each, in any order: list(S) of a
\* Python set, whose iteration order is not fixed
ListsOf(S) ==
    {l \in [1..Cardinality(S) -> S] : \A i, j \in DOMAIN l : l[i] = l[j] => i = j}

\* set(l) of a list
SetOf(l) == {l[i] : i \in DOMAIN l}

(***************************************************************************)
(* Program constants.                                                      *)
(***************************************************************************)

IGNORE_PACKAGES ==
    {"libc6-dev", "glibc-devel", "gcc-libs", "libgcc",
     "libstdc++-11-dev", "libstdc++-devel",
     "linux-libc-dev"}

CPP_STANDARD_HEADERS == {
    "algorithm", "any", "array", "atomic", "bit", "bitset", "charconv",
    "chrono", "codecvt", "compare", "complex", "concepts", "condition_variable",
    "coroutine", "deque", "exception", "execution", "filesystem", "format",
    "forward_list", "fstream", "functional", "future", "initializer_list",
    "iomanip", "ios", "iosfwd", "iostream", "istream", "iterator", "limits",
    "list", "locale", "map", "memory", "memory_resource", "mutex", "new",
    "numbers", "numeric", "optional", "ostream", "queue", "random", "ranges",
    "ratio", "regex", "scoped_allocator", "set", "shared_mutex",
    "source_location", "span", "sstream", "stack", "stdexcept", "streambuf",
    "string", "string_view", "syncstream", "system_error", "thread", "tuple",
    "type_traits", "typeindex", "typeinfo", "unordered_map", "unordered_set",
    "utility", "valarray", "variant", "vector", "version",
    "cassert", "cctype", "cerrno", "cfenv", "cfloat", "cinttypes", "ciso646",
    "climits", "clocale", "cmath", "csetjmp", "csignal", "cstdalign",
    "cstdarg", "cstdbool", "cstddef", "cstdint", "cstdio", "cstdlib",
    "cstring", "ctgmath", "ctime", "cuchar", "cwchar", "cwctype",
    "assert.h", "ctype.h", "errno.h", "fenv.h", "float.h", "inttypes.h",
    "iso646.h", "limits.h", "locale.h", "math.h", "setjmp.h", "signal.h",
    "stdalign.h", "stdarg.h", "stdbool.h", "stddef.h", "stdint.h",
    "stdio.h", "stdlib.h", "string.h", "tgmath.h", "time.h", "uchar.h",
    "wchar.h", "wctype.h"}

\* the quote_type INCLUDE_REGEX captures
QUOTE == "\""

ANGLE == "<"

(***************************************************************************)
(* The bounded world the program runs in.                                  *)
(***************************************************************************)

\* args.source_file, absolute, and its directory
main_source_file == "/p/main.cpp"

project_root == DirName(main_source_file)

\* the directories os.walk(project_root) visits, in its order
WalkDirs == <<"/p", "/p/sub", "/p/std">>

\* the headers of the project tree; the tree holds b.h twice, and a header
\* named like a standard one
ProjectHeaders == {"/p/b.h", "/p/sub/b.h", "/p/sub/c.h", "/p/std/string.h"}

\* the other files of the project tree
ProjectSources == {"/p/b.cpp", "/p/std/string.cpp"}

ProjectFiles == ProjectHeaders \cup ProjectSources \cup {main_source_file}

\* the header references an #include line of the project may make
Refs ==
    {<<"b.h", QUOTE>>, <<"b.h", ANGLE>>, <<"c.h", QUOTE>>,
     <<"z.h", QUOTE>>, <<"z.h", ANGLE>>,
     <<"string.h", QUOTE>>, <<"string.h", ANGLE>>}

HeaderNames == {r[1] : r \in Refs}

\* the packages of the distribution, as dpkg -S names them, each with the
\* files it owns; libc6-dev-x32 starts with an IGNORE_PACKAGES entry
PackageFiles ==
    [p \in {"libfoo-dev:amd64", "libbar-dev", "libc6-dev-x32"} |->
        CASE p = "libfoo-dev:amd64" ->
               <<"/usr/include/foo/z.h", "/usr/lib/x86_64-linux-gnu/libfoo.so">>
          [] p = "libbar-dev" ->
               <<"/usr/include/bar/z.h", "/usr/include/bar/sub/b.h", "/usr/lib/libbar.so.1">>
          [] p = "libc6-dev-x32" ->
               <<"/usr/include/z.h", "/usr/libx32/libc.so">>]

\* the identifiers each installed system header's text holds as whole words
SystemHeaderWords ==
    [f \in {"/usr/include/foo/z.h", "/usr/include/bar/z.h",
            "/usr/include/bar/sub/b.h", "/usr/include/z.h"} |->
        CASE f = "/usr/include/foo/z.h" -> {"f"}
          [] f = "/usr/include/bar/z.h" -> {"f", "g"}
          [] f = "/usr/include/bar/sub/b.h" -> {"g"}
          [] f = "/usr/include/z.h" -> {"g"}]

\* the identifiers the entry file may call
EntrySymbols == {"f", "g"}

\* the plain distribution: every package installed; the plain entry file
\* calls f only
PlainDb == <<"libfoo-dev:amd64", "libbar-dev", "libc6-dev-x32">>

PlainSymbols == {"f"}

\* sequences without repetition over S
Arrangements(S) == UNION {ListsOf(T) : T \in SUBSET S}

(***************************************************************************)
(* The package backend: DebianManager over dpkg.                           *)
(***************************************************************************)

\* str.strip of a line that may start or end with blanks
RECURSIVE Strip(_)
Strip(s) ==
    IF s = "" THEN s
    ELSE IF SubSeq(s, 1, 1) = " " THEN Strip(SubSeq(s, 2, Len(s)))
    ELSE IF SubSeq(s, Len(s), Len(s)) = " " THEN Strip(SubSeq(s, 1, Len(s) - 1))
    ELSE s

\* s.split(sep)[0]
SplitFirst(s, sep) ==
    IF Occurrences(s, sep) = {} THEN s
    ELSE SubSeq(s, 1, SetMin(Occurrences(s, sep)) - 1)

\* the lines `dpkg -S */header` prints over the installed packages db (a
\* sequence of package names): "package: path" for each owned file whose
\* path ends in /header
RECURSIVE FileLines(_, _, _)
FileLines(package, files, header) ==
    IF files = <<>> THEN <<>>
    ELSE (IF EndsWith(Head(files), "/" \o header)
          THEN <<package \o ": " \o Head(files)>> ELSE <<>>)
         \o FileLines(package, Tail(files), header)

RECURSIVE DpkgSearch(_, _)
DpkgSearch(db, header) ==
    IF db = <<>> THEN <<>>
    ELSE FileLines(Head(db), PackageFiles[Head(db)], header)
         \o DpkgSearch(Tail(db), header)

\* the lines `dpkg -L package_name` prints: the files of the installed
\* package of that name (an architecture qualifier apart)
RECURSIVE DpkgList(_, _)
DpkgList(db, package_name) ==
    IF db = <<>> THEN <<>>
    ELSE (IF SplitFirst(Head(db), ":") = package_name
          THEN PackageFiles[Head(db)] ELSE <<>>)
         \o DpkgList(Tail(db), package_name)

\* a faulty run_command that hands on whatever the tool printed, whether or
\* not it failed
run_command_unchecked(tool_works, lines) == lines

\* run_command: the lines of stdout, none when the tool is missing or
\* exits non-zero
run_command(tool_works, lines) == IF tool_works THEN lines ELSE <<>>

\* DebianManager.find_header_candidates, the loop over output.splitlines()
RECURSIVE ParseDpkgSearch(_, _)
ParseDpkgSearch(lines, candidates) ==
    IF lines = <<>> THEN candidates
    ELSE LET match_line == Head(lines)
             last_colon_index == RFind(match_line, ":")
             full_path == Strip(SubSeq(match_line, last_colon_index + 1, Len(match_line)))
             package_name == SplitFirst(SubSeq(match_line, 1, last_colon_index - 1), ":")
         IN  IF last_colon_index = 0
             THEN ParseDpkgSearch(Tail(lines), candidates)
             ELSE IF \E k \in DOMAIN candidates : candidates[k].full_path = full_path
             THEN ParseDpkgSearch(Tail(lines), candidates)
             ELSE ParseDpkgSearch(Tail(lines),
                     Append(candidates, [package |-> package_name, full_path |-> full_path]))

\* DebianManager.find_header_candidates
pm_find_header_candidates(db, tool_works, header) ==
    ParseDpkgSearch(run_command(tool_works, DpkgSearch(db, header)), <<>>)

IsHeaderFile(file_path) ==
    /\ Contains(file_path, "/usr/include/")
    /\ \/ EndsWith(file_path, ".h")
       \/ EndsWith(file_path, ".hpp")
       \/ EndsWith(file_path, ".hh")

\* DebianManager.find_package_info: <<include_paths, libs>>, two sets
pm_find_package_info(db, tool_works, package_name) ==
    LET file_list == run_command(tool_works, DpkgList(db, package_name))
    IN  <<{DirName(file_list[k]) : k \in {j \in DOMAIN file_list : IsHeaderFile(file_list[j])}},
          {LibName(file_list[k]) : k \in {j \in DOMAIN file_list : LibMatches(file_list[j]) # {}}}>>

\* the package names find_header_candidates can return
PackageNames == {SplitFirst(p, ":") : p \in DOMAIN PackageFiles}

\* a function as the table of its values
Table(f) == f @@ <<>>

Worlds == Arrangements(DOMAIN PackageFiles) \X BOOLEAN

\* the backend's answers, worked out once for each state of the world
CandidatesOf ==
    Table([t \in Worlds \X HeaderNames |-> pm_find_header_candidates(t[1][1], t[1][2], t[2])])

InfoOf ==
    Table([t \in Worlds \X PackageNames |-> pm_find_package_info(t[1][1], t[1][2], t[2])])

(***************************************************************************)
(* JSON texts, as the cache stores them.                                  *)
(***************************************************************************)

\* the elements of a finite set of numbers, ascending
RECURSIVE Ascending(_)
Ascending(S) == IF S = {} THEN <<>> ELSE <<SetMin(S)>> \o Ascending(S \ {SetMin(S)})

\* ", ".join(texts)
RECURSIVE JoinComma(_)
JoinComma(texts) ==
    IF texts = <<>> THEN ""
    ELSE IF Len(texts) = 1 THEN texts[1]
    ELSE texts[1] \o ", " \o JoinComma(Tail(texts))

\* json.dumps of a str that needs no escape (no quote, no backslash, ASCII)
JsonString(s) == "\"" \o s \o "\""

\* json.dumps of a list of str
JsonDumpsStrings(l) ==
    "[" \o JoinComma([i \in DOMAIN l |-> JsonString(l[i])]) \o "]"

\* json.dumps of a list of {'package': ..., 'full_path': ...} dicts, the
\* keys in insertion order
JsonDumpsCandidates(l) ==
    "[" \o JoinComma([i \in DOMAIN l |->
                        "{" \o JsonString("package") \o ": " \o JsonString(l[i].package)
                        \o ", " \o JsonString("full_path") \o ": "
                        \o JsonString(l[i].full_path) \o "}"]) \o "]"

\* the string literals of a JSON text, in order
JsonLiterals(text) ==
    LET quotes == Ascending(Occurrences(text, "\""))
    IN  [k \in 1..(Len(quotes) \div 2) |->
            SubSeq(text, quotes[2 * k - 1] + 1, quotes[2 * k] - 1)]

\* json.loads of the text of a list of str
ParseStrings(text) == JsonLiterals(text)

\* json.loads of the text of a list of two-key dicts: each dict maps its
\* first literal to its second and its third to its fourth
ParseCandidates(text) ==
    LET lit == JsonLiterals(text)
    IN  [k \in 1..(Len(lit) \div 4) |->
            (lit[4 * k - 3] :> lit[4 * k - 2]) @@ (lit[4 * k - 1] :> lit[4 * k])]

\* the lists the backend can answer with, and their texts, worked out once
CandidateLists == {CandidatesOf[t] : t \in DOMAIN CandidatesOf}

StringLists ==
    UNION {ListsOf(InfoOf[t][1]) \cup ListsOf(InfoOf[t][2]) : t \in DOMAIN InfoOf}

CandidateTexts == Table([l \in CandidateLists |-> JsonDumpsCandidates(l)])

StringTexts == Table([l \in StringLists |-> JsonDumpsStrings(l)])

ParsedCandidates ==
    Table([text \in {CandidateTexts[l] : l \in CandidateLists} |-> ParseCandidates(text)])

ParsedStrings ==
    Table([text \in {StringTexts[l] : l \in StringLists} |-> ParseStrings(text)])

\* json.dumps(value) and json.loads(text) as Cache uses them, looked up
DumpCandidates(l) == CandidateTexts[l]

DumpStrings(l) == StringTexts[l]

JsonLoadsCandidates(text) == ParsedCandidates[text]

JsonLoadsStrings(text) == ParsedStrings[text]

(***************************************************************************)
(* class Cache.  The store is the file ~/.cache/cguess/cache.db: missing,  *)
(* or of the outdated schema (packages has no distro_id column), or the    *)
(* two tables, each a function from its primary key <<distro_id, name>>.   *)
(***************************************************************************)

NoFile == [kind |-> "missing"]

OldSchemaFile == [kind |-> "outdated"]

EmptyDb == [kind |-> "db", system_headers |-> <<>>, packages |-> <<>>]

\* a faulty __init__ that starts every enabled instance on empty tables
ConstructAnew(enabled, st) == IF enabled THEN EmptyDb ELSE st

\* Cache.__init__ on the store: nothing when disabled; an outdated file is
\* removed; the file and both tables are created when missing
CacheConstructStore(enabled, st) ==
    IF ~enabled THEN st
    ELSE IF st.kind = "db" THEN st
    ELSE EmptyDb

\* the Cache object __init__ leaves
CacheObject(distro_id, enabled) ==
    [enabled |-> enabled, distro_id |-> distro_id, open |-> enabled]

NoCache == [enabled |-> FALSE, distro_id |-> "", open |-> FALSE]

\* a faulty Cache.get whose SELECT has no distro_id condition: the row of
\* any distribution under the key
CacheGetAnyDistro(c, st, table, key) ==
    IF ~c.enabled THEN None
    ELSE IF table = "system_headers"
    THEN IF \E pk \in DOMAIN st.system_headers : pk[2] = key
         THEN Some(JsonLoadsCandidates(
                  st.system_headers[CHOOSE pk \in DOMAIN st.system_headers : pk[2] = key]))
         ELSE None
    ELSE IF \E pk \in DOMAIN st.packages : pk[2] = key
    THEN Some(<<JsonLoadsStrings(
                   st.packages[CHOOSE pk \in DOMAIN st.packages : pk[2] = key][1]),
                JsonLoadsStrings(
                   st.packages[CHOOSE pk \in DOMAIN st.packages : pk[2] = key][2])>>)
    ELSE None

\* a faulty Cache.get without the enabled test, reading whatever file is
\* there
CacheGetAnyway(c, st, table, key) ==
    IF st.kind # "db" THEN None
    ELSE IF table = "system_headers"
    THEN IF <<c.distro_id, key>> \in DOMAIN st.system_headers
         THEN Some(JsonLoadsCandidates(st.system_headers[<<c.distro_id, key>>]))
         ELSE None
    ELSE IF <<c.distro_id, key>> \in DOMAIN st.packages
    THEN Some(<<JsonLoadsStrings(st.packages[<<c.distro_id, key>>][1]),
                JsonLoadsStrings(st.packages[<<c.distro_id, key>>][2])>>)
    ELSE None

\* Cache.get
CacheGet(c, st, table, key) ==
    IF ~c.enabled THEN None
    ELSE IF table = "system_headers"
    THEN IF <<c.distro_id, key>> \in DOMAIN st.system_headers
         THEN Some(JsonLoadsCandidates(st.system_headers[<<c.distro_id, key>>]))
         ELSE None
    ELSE IF table = "packages"
    THEN IF <<c.distro_id, key>> \in DOMAIN st.packages
         THEN Some(<<JsonLoadsStrings(st.packages[<<c.distro_id, key>>][1]),
                     JsonLoadsStrings(st.packages[<<c.distro_id, key>>][2])>>)
         ELSE None
    ELSE None

\* the row INSERT OR REPLACE puts under the primary key
Upsert(rows, pk, row) == (pk :> row) @@ rows

\* Cache.set: the stores it may leave.  For packages the value is a pair of
\* sets, each written as list(set) in whatever order the set iterates.
CacheSet(c, st, table, key, value) ==
    IF ~c.enabled THEN {st}
    ELSE IF table = "system_headers"
    THEN {[st EXCEPT !.system_headers =
              Upsert(@, <<c.distro_id, key>>, DumpCandidates(value))]}
    ELSE IF table = "packages"
    THEN {[st EXCEPT !.packages =
              Upsert(@, <<c.distro_id, key>>,
                     <<DumpStrings(incs), DumpStrings(libs)>>)] :
            incs \in ListsOf(value[1]), libs \in ListsOf(value[2])}
    ELSE {st}

\* a faulty Cache.clear that removes nothing
KeepsStore(st) == st

\* Cache.clear
CacheClearStore(st) == IF st.kind # "missing" THEN NoFile ELSE st

(***************************************************************************)
(* State.                                                                  *)
(***************************************************************************)

VARIABLES
    \* the world: what extract_headers_from_file finds in the entry file and
    \* the project headers, the identifiers the entry file calls, the
    \* installed packages in dpkg's order
    file_includes, entry_symbols, dpkg_db,
    \* ~/.cache/cguess/cache.db
    store,
    \* the running process: where it is, its Cache object, whether each dpkg
    \* command works in it ("unknown" until first run), and main's locals
    pc, cache, works,
    headers_to_process, all_source_files, all_include_paths, all_libs,
    processed_system_packages, processed_local_headers,
    \* the last loop iteration: what it popped, the branch it took, the calls
    \* it made
    step,
    \* the process invocation that finished last
    prev,
    \* the store as the running process found it once its Cache was
    \* constructed
    store_at_start,
    \* for the cache alone: the value last set under each key since the file
    \* was last removed, and the last operation made on a Cache
    written, op

world == <<file_includes, entry_symbols, dpkg_db>>

locals ==
    <<headers_to_process, all_source_files, all_include_paths, all_libs,
      processed_system_packages, processed_local_headers>>

vars ==
    <<world, store, pc, cache, works, locals, step, prev, store_at_start,
      written, op>>

(***************************************************************************)
(* The steps of main() outside the cache and the backend.                  *)
(***************************************************************************)

\* get_distro on the machine modelled
distro_id == "debian"

\* a faulty extract_headers_from_file that reads the entry file only
extract_entry_only(file_path) ==
    IF file_path = main_source_file THEN file_includes[file_path] ELSE {}

\* a faulty extract_headers_from_file that reads the entry file whatever
\* file it is given
extract_from_entry(file_path) == file_includes[main_source_file]

\* a faulty extract_headers_from_file that reads the .cpp file beside the
\* file as well
extract_with_sibling(file_path) ==
    (IF file_path \in DOMAIN file_includes THEN file_includes[file_path] ELSE {})
    \cup (IF SplitExtRoot(file_path) \o ".cpp" \in DOMAIN file_includes
          THEN file_includes[SplitExtRoot(file_path) \o ".cpp"] ELSE {})

\* extract_headers_from_file: the set of (header_name, quote_type); empty
\* for a file that cannot be opened
extract_headers_from_file(file_path) ==
    IF file_path \in DOMAIN file_includes THEN file_includes[file_path] ELSE {}

\* os.path.basename
BaseName(path) == SubSeq(path, RFind(path, "/") + 1, Len(path))

\* os.walk(start_dir): the directories under start_dir in walk order, each
\* with the names of its files
Walk(start_dir) ==
    SelectSeq(WalkDirs, LAMBDA d : d = start_dir \/ StartsWith(d, start_dir \o "/"))

WalkFiles ==
    Table([d \in SetOf(WalkDirs) |->
              {BaseName(f) : f \in {g \in ProjectFiles : DirName(g) = d}}])

\* find_local_file: the first match of the walk, or None
find_local_file(filename, start_dir) ==
    LET holding == SelectSeq(Walk(start_dir), LAMBDA d : filename \in WalkFiles[d])
    IN  IF holding = <<>> THEN None ELSE Some(PathJoin(Head(holding), filename))

\* score_header_match: the symbols the header's text holds as whole words;
\* 0 for a header that cannot be opened
score_header_match(source_symbols, header_path) ==
    IF header_path \in DOMAIN SystemHeaderWords
    THEN Cardinality(source_symbols \cap SystemHeaderWords[header_path])
    ELSE 0

\* max(candidates, key=score), as the builtin walks the list: the k-th
\* candidate replaces the best so far only if it scores strictly higher
RECURSIVE MaxFrom(_, _, _, _)
MaxFrom(candidates, source_symbols, k, best) ==
    IF k > Len(candidates) THEN candidates[best]
    ELSE MaxFrom(candidates, source_symbols, k + 1,
                 IF score_header_match(source_symbols, candidates[k].full_path)
                    > score_header_match(source_symbols, candidates[best].full_path)
                 THEN k ELSE best)

MaxByScore(candidates, source_symbols) == MaxFrom(candidates, source_symbols, 2, 1)

\* a faulty selection that never scores
first_candidate(candidates, source_symbols) == candidates[1]

\* lines 545-548: candidates[0], or the best-scoring of several
best_candidate(candidates, source_symbols) ==
    IF Len(candidates) > 1 THEN MaxByScore(candidates, source_symbols)
    ELSE candidates[1]

\* a faulty line 551 that suppresses no package
IgnoresNothing(package) == FALSE

\* line 551, second half
IsIgnoredPackage(package) == \E p \in IGNORE_PACKAGES : StartsWith(package, p)

\* a faulty line 513 without the standard-header test
IsResolvedOnly(header_name) == header_name \in processed_local_headers

\* a line 513 that knows the resolved headers by their names
IsDiscardedByName(header_name) ==
    \/ header_name \in CPP_STANDARD_HEADERS
    \/ \E p \in processed_local_headers : BaseName(p) = header_name

\* a line 513 that lets a project file of a standard name through
IsDiscardedUnlessLocal(header_name) ==
    \/ /\ header_name \in CPP_STANDARD_HEADERS
       /\ find_local_file(header_name, project_root) = None
    \/ header_name \in processed_local_headers

\* line 513: a popped header that is dropped at once
IsDiscarded(header_name) ==
    \/ header_name \in CPP_STANDARD_HEADERS
    \/ header_name \in processed_local_headers

\* a faulty lines 516-518 that walks the project for every reference
local_header_any_quote(header_name, quote_type) ==
    find_local_file(header_name, project_root)

\* lines 516-518
local_header_path(header_name, quote_type) ==
    IF quote_type = QUOTE THEN find_local_file(header_name, project_root) ELSE None

(***************************************************************************)
(* The cache-wrapped lookups.  Each gives the value returned, the stores   *)
(* the call may leave and the calls made on the cache and the backend.     *)
(***************************************************************************)

\* l back to front
Reverse(l) == [i \in DOMAIN l |-> l[Len(l) + 1 - i]]

\* a faulty wrapper whose cache hit gives the candidates back to front
header_lookup_reversed(c, st, header, cached_candidates, candidates) ==
    IF cached_candidates # None /\ cached_candidates[1] # <<>>
    THEN [result |-> Reverse(cached_candidates[1]), stores |-> {st},
          calls |-> {<<"get", "system_headers", header>>}]
    ELSE [result |-> candidates,
          stores |-> CacheSet(c, st, "system_headers", header, candidates),
          calls |-> {<<"get", "system_headers", header>>,
                     <<"pm_candidates", header>>,
                     <<"set", "system_headers", header>>}]

\* lines 354-361, given what cache.get returned and what the backend
\* answers when asked
header_lookup(c, st, header, cached_candidates, candidates) ==
    IF cached_candidates # None /\ cached_candidates[1] # <<>>
    THEN [result |-> cached_candidates[1], stores |-> {st},
          calls |-> {<<"get", "system_headers", header>>}]
    ELSE [result |-> candidates,
          stores |-> CacheSet(c, st, "system_headers", header, candidates),
          calls |-> {<<"get", "system_headers", header>>,
                     <<"pm_candidates", header>>,
                     <<"set", "system_headers", header>>}]

\* find_header_candidates(header, pm, cache)
find_header_candidates(c, st, db, tool_works, header) ==
    header_lookup(c, st, header, CacheGet(c, st, "system_headers", header),
                  CandidatesOf[<<<<db, tool_works>>, header>>])

\* a faulty wrapper whose cache hit takes the two columns of the row the
\* wrong way round
package_lookup_swapped(c, st, package_name, cached_info, info) ==
    IF cached_info # None
    THEN [result |-> <<SetOf(cached_info[1][2]), SetOf(cached_info[1][1])>>,
          stores |-> {st},
          calls |-> {<<"get", "packages", package_name>>}]
    ELSE [result |-> info,
          stores |-> CacheSet(c, st, "packages", package_name, info),
          calls |-> {<<"get", "packages", package_name>>,
                     <<"pm_info", package_name>>,
                     <<"set", "packages", package_name>>}]

\* a faulty wrapper whose cache hit gives the include paths of the row and
\* no library
package_lookup_paths_only(c, st, package_name, cached_info, info) ==
    IF cached_info # None
    THEN [result |-> <<SetOf(cached_info[1][1]), {}>>,
          stores |-> {st},
          calls |-> {<<"get", "packages", package_name>>}]
    ELSE [result |-> info,
          stores |-> CacheSet(c, st, "packages", package_name, info),
          calls |-> {<<"get", "packages", package_name>>,
                     <<"pm_info", package_name>>,
                     <<"set", "packages", package_name>>}]

\* lines 365-372, given what cache.get returned and what the backend
\* answers when asked; a cached tuple is true even when both lists are empty
package_lookup(c, st, package_name, cached_info, info) ==
    IF cached_info # None
    THEN [result |-> <<SetOf(cached_info[1][1]), SetOf(cached_info[1][2])>>,
          stores |-> {st},
          calls |-> {<<"get", "packages", package_name>>}]
    ELSE [result |-> info,
          stores |-> CacheSet(c, st, "packages", package_name, info),
          calls |-> {<<"get", "packages", package_name>>,
                     <<"pm_info", package_name>>,
                     <<"set", "packages", package_name>>}]

\* find_package_info(package_name, pm, cache)
find_package_info(c, st, db, tool_works, package_name) ==
    package_lookup(c, st, package_name, CacheGet(c, st, "packages", package_name),
                   InfoOf[<<<<db, tool_works>>, package_name>>])

(***************************************************************************)
(* Initial states.                                                         *)
(***************************************************************************)

\* the references a project header may make
HeaderRefs == {<<"b.h", QUOTE>>, <<"c.h", QUOTE>>, <<"z.h", ANGLE>>}

\* the texts of the entry file: two #include lines (maybe of the same
\* header); of a project header: at most one
EntryTexts == {{r1, r2} : r1 \in Refs, r2 \in Refs}

HeaderTexts == {{}} \cup {{r} : r \in HeaderRefs}

\* the project's texts: the entry file and the two headers the walk can
\* find vary, the other files are fixed
ProjectText(e, b, c) ==
    [f \in ProjectFiles |->
        CASE f = main_source_file -> e
          [] f = "/p/b.h" -> b
          [] f = "/p/sub/c.h" -> c
          [] f = "/p/std/string.h" -> {<<"c.h", QUOTE>>}
          [] f = "/p/b.cpp" -> {<<"z.h", ANGLE>>}
          [] OTHER -> {}]

\* the references that reach the package backend
SystemRefs == {<<"z.h", ANGLE>>, <<"z.h", QUOTE>>, <<"b.h", ANGLE>>}

SystemEntryTexts == {{r1, r2} : r1 \in SystemRefs, r2 \in SystemRefs}

\* the worlds a behaviour starts in, <<texts, symbols, installed packages>>:
\* any project over the plain distribution, or an entry file of system
\* references over any distribution
StartWorlds ==
    {<<ProjectText(e, b, c), PlainSymbols, PlainDb>> :
        e \in EntryTexts, b \in HeaderTexts, c \in HeaderTexts}
    \cup
    {<<ProjectText(e, {}, {}), s, d>> :
        e \in SystemEntryTexts, s \in SUBSET EntrySymbols \ {{}, {"g"}},
        d \in Arrangements(DOMAIN PackageFiles)}

NoLocals ==
    /\ headers_to_process = <<>>
    /\ all_source_files = {}
    /\ all_include_paths = {}
    /\ all_libs = {}
    /\ processed_system_packages = {}
    /\ processed_local_headers = {}

NoStep == [kind |-> "none", ref |-> <<>>, calls |-> {}]

NoOp == [name |-> "none"]

UnknownTools == [search |-> "unknown", list |-> "unknown"]

Init ==
    /\ \E w \in StartWorlds :
        /\ file_includes = w[1]
        /\ entry_symbols = w[2]
        /\ dpkg_db = w[3]
    /\ store = OldSchemaFile
    /\ pc = "idle"
    /\ cache = NoCache
    /\ works = UnknownTools
    /\ NoLocals
    /\ step = NoStep
    /\ prev = [kind |-> "none"]
    /\ store_at_start = NoFile
    /\ written = <<>>
    /\ op = NoOp

(***************************************************************************)
(* main().                                                                 *)
(***************************************************************************)

Mark(w) == IF w THEN "yes" ELSE "no"

\* a command behaves in a run as it did the first time the run used it
Agrees(flag, w) == flag = "unknown" \/ flag = Mark(w)

\* lines 475-508: a process starts without --clear-cache
StartRun ==
    /\ pc = "idle"
    /\ \E no_cache \in BOOLEAN,
          worklist \in ListsOf(extract_headers_from_file(main_source_file)) :
          /\ cache' = CacheObject(distro_id, ~no_cache)
          /\ store' = CacheConstructStore(~no_cache, store)
          /\ store_at_start' = CacheConstructStore(~no_cache, store)
          /\ headers_to_process' = worklist
    /\ all_source_files' = {main_source_file}
    /\ all_include_paths' = {}
    /\ all_libs' = {}
    /\ processed_system_packages' = {}
    /\ processed_local_headers' = {}
    /\ works' = UnknownTools
    /\ step' = [kind |-> "start", ref |-> <<>>, calls |-> {}]
    /\ pc' = "loop"
    /\ UNCHANGED <<world, prev, written, op>>

\* lines 471-473: a process started with --clear-cache
ClearCache ==
    /\ pc = "idle"
    /\ store' = CacheClearStore(store)
    /\ prev' = [kind |-> "clear"]
    /\ UNCHANGED <<world, pc, cache, works, locals, step, store_at_start,
                   written, op>>

\* lines 511-514: pop, and drop a standard or an already resolved header
SkipHeader ==
    /\ pc = "loop"
    /\ headers_to_process # <<>>
    /\ LET header_name == Head(headers_to_process)[1]
       IN  /\ IsDiscarded(header_name)
           /\ headers_to_process' = Tail(headers_to_process)
           /\ step' = [kind |-> "skip", ref |-> Head(headers_to_process), calls |-> {}]
    /\ UNCHANGED <<world, store, pc, cache, works, all_source_files,
                   all_include_paths, all_libs, processed_system_packages,
                   processed_local_headers, prev, store_at_start, written, op>>

\* lines 511-536: pop a header the walk finds, record it and queue its
\* includes
ResolveLocal ==
    /\ pc = "loop"
    /\ headers_to_process # <<>>
    /\ LET header_name == Head(headers_to_process)[1]
           quote_type == Head(headers_to_process)[2]
           found == local_header_path(header_name, quote_type)
           abs_local_header_path == found[1]
           cpp_file == SplitExtRoot(abs_local_header_path) \o ".cpp"
           new_headers == extract_headers_from_file(abs_local_header_path)
           resolved == processed_local_headers \cup {abs_local_header_path}
           rest == Tail(headers_to_process)
           pushed == {h \in new_headers :
                         h[1] \notin resolved /\ h \notin SetOf(rest)}
       IN  /\ ~IsDiscarded(header_name)
           /\ found # None
           /\ processed_local_headers' = resolved
           /\ all_include_paths' = all_include_paths \cup {DirName(abs_local_header_path)}
           /\ all_source_files' =
                 IF cpp_file \in ProjectFiles
                 THEN all_source_files \cup {cpp_file} ELSE all_source_files
           /\ \E order \in ListsOf(pushed) : headers_to_process' = rest \o order
           /\ step' = [kind |-> "local", ref |-> Head(headers_to_process),
                       calls |-> {<<"locate", header_name>>,
                                  <<"extract", abs_local_header_path>>}]
    /\ UNCHANGED <<world, store, pc, cache, works, all_libs,
                   processed_system_packages, prev, store_at_start, written, op>>

\* the calls every iteration on the system path makes before the lookup
SystemPathCalls(header_name, quote_type) ==
    (IF quote_type = QUOTE THEN {<<"locate", header_name>>} ELSE {})
    \cup {<<"symbols", main_source_file>>}

\* the calls of the disambiguation: one scoring per candidate, if several
ScoreCalls(candidates) ==
    IF Len(candidates) > 1
    THEN {<<"score", candidates[k].full_path>> : k \in DOMAIN candidates}
    ELSE {}

\* the tool's flag after a lookup that may have run it
ToolAfter(flag, lookup, call, w) ==
    IF \E x \in lookup.calls : x[1] = call THEN Mark(w) ELSE flag

\* a lookup that runs no tool is tried once, not once per way the tool
\* could have behaved: under the one behaviour that agrees with the flag
Needed(flag, lookup, call, w) ==
    \/ \E x \in lookup.calls : x[1] = call
    \/ w = (flag # "no")

\* lines 511-543: pop a header that is not local and that no package owns
NoCandidates ==
    /\ pc = "loop"
    /\ headers_to_process # <<>>
    /\ \E ref \in {Head(headers_to_process)}, ws \in BOOLEAN :
          /\ ~IsDiscarded(ref[1])
          /\ local_header_path(ref[1], ref[2]) = None
          /\ Agrees(works.search, ws)
          /\ \E lookup \in {find_header_candidates(cache, store, dpkg_db, ws, ref[1])} :
                /\ Needed(works.search, lookup, "pm_candidates", ws)
                /\ lookup.result = <<>>
                /\ store' \in lookup.stores
                /\ works' = [works EXCEPT
                               !.search = ToolAfter(@, lookup, "pm_candidates", ws)]
                /\ step' = [kind |-> "no_candidates", ref |-> ref,
                            calls |-> SystemPathCalls(ref[1], ref[2]) \cup lookup.calls]
    /\ headers_to_process' = Tail(headers_to_process)
    /\ UNCHANGED <<world, pc, cache, all_source_files, all_include_paths, all_libs,
                   processed_system_packages, processed_local_headers,
                   prev, store_at_start, written, op>>

\* lines 511-552: pop a system header whose package was processed in this
\* run or belongs to the toolchain
SkipPackage ==
    /\ pc = "loop"
    /\ headers_to_process # <<>>
    /\ \E ref \in {Head(headers_to_process)}, ws \in BOOLEAN :
          /\ ~IsDiscarded(ref[1])
          /\ local_header_path(ref[1], ref[2]) = None
          /\ Agrees(works.search, ws)
          /\ \E lookup \in {find_header_candidates(cache, store, dpkg_db, ws, ref[1])} :
                /\ Needed(works.search, lookup, "pm_candidates", ws)
                /\ lookup.result # <<>>
                /\ \E best \in {best_candidate(lookup.result, entry_symbols)} :
                      /\ \/ best.package \in processed_system_packages
                         \/ IsIgnoredPackage(best.package)
                      /\ step' = [kind |-> "skip_package", ref |-> ref,
                                  candidates |-> lookup.result,
                                  selected |-> best,
                                  calls |-> SystemPathCalls(ref[1], ref[2])
                                            \cup lookup.calls
                                            \cup ScoreCalls(lookup.result)]
                /\ store' \in lookup.stores
                /\ works' = [works EXCEPT
                               !.search = ToolAfter(@, lookup, "pm_candidates", ws)]
    /\ headers_to_process' = Tail(headers_to_process)
    /\ UNCHANGED <<world, pc, cache, all_source_files, all_include_paths, all_libs,
                   processed_system_packages, processed_local_headers,
                   prev, store_at_start, written, op>>

\* lines 511-560: pop a system header and take in its package
ResolvePackage ==
    /\ pc = "loop"
    /\ headers_to_process # <<>>
    /\ \E ref \in {Head(headers_to_process)}, ws \in BOOLEAN, wl \in BOOLEAN :
          /\ ~IsDiscarded(ref[1])
          /\ local_header_path(ref[1], ref[2]) = None
          /\ Agrees(works.search, ws)
          /\ Agrees(works.list, wl)
          /\ \E lookup \in {find_header_candidates(cache, store, dpkg_db, ws, ref[1])} :
                /\ Needed(works.search, lookup, "pm_candidates", ws)
                /\ lookup.result # <<>>
                /\ \E best \in {best_candidate(lookup.result, entry_symbols)},
                      store1 \in lookup.stores :
                      /\ best.package \notin processed_system_packages
                      /\ ~IsIgnoredPackage(best.package)
                      /\ \E info \in {find_package_info(cache, store1, dpkg_db, wl,
                                                        best.package)} :
                            /\ Needed(works.list, info, "pm_info", wl)
                            /\ store' \in info.stores
                            /\ all_include_paths' = all_include_paths \cup info.result[1]
                            /\ all_libs' = all_libs \cup info.result[2]
                            /\ works' = [search |-> ToolAfter(works.search, lookup,
                                                              "pm_candidates", ws),
                                         list |-> ToolAfter(works.list, info,
                                                            "pm_info", wl)]
                            /\ step' = [kind |-> "package", ref |-> ref,
                                        candidates |-> lookup.result,
                                        selected |-> best,
                                        calls |-> SystemPathCalls(ref[1], ref[2])
                                                  \cup lookup.calls
                                                  \cup ScoreCalls(lookup.result)
                                                  \cup info.calls]
                      /\ processed_system_packages' =
                            processed_system_packages \cup {best.package}
    /\ headers_to_process' = Tail(headers_to_process)
    /\ UNCHANGED <<world, pc, cache, all_source_files, processed_local_headers,
                   prev, store_at_start, written, op>>

\* lines 510, 562-587: the worklist is empty; the outputs are printed, the
\* cache is closed and the process ends
Finish ==
    /\ pc = "loop"
    /\ headers_to_process = <<>>
    /\ prev' = [kind |-> "resolve",
                no_cache |-> ~cache.enabled,
                works |-> works,
                source_files |-> all_source_files,
                include_paths |-> all_include_paths,
                libs |-> all_libs]
    /\ cache' = NoCache
    /\ works' = UnknownTools
    /\ headers_to_process' = <<>>
    /\ all_source_files' = {}
    /\ all_include_paths' = {}
    /\ all_libs' = {}
    /\ processed_system_packages' = {}
    /\ processed_local_headers' = {}
    /\ step' = NoStep
    /\ pc' = "idle"
    /\ store_at_start' = NoFile
    /\ UNCHANGED <<world, store, written, op>>

Next ==
    \/ StartRun
    \/ ClearCache
    \/ SkipHeader
    \/ ResolveLocal
    \/ NoCandidates
    \/ SkipPackage
    \/ ResolvePackage
    \/ Finish

Spec == Init /\ [][Next]_vars

\* one iteration of the while loop, or the end of main
LoopStep ==
    \/ SkipHeader
    \/ ResolveLocal
    \/ NoCandidates
    \/ SkipPackage
    \/ ResolvePackage
    \/ Finish

\* a started process keeps executing: nothing in main waits
FairSpec == Spec /\ WF_vars(LoopStep)

(***************************************************************************)
(* C1: cycle termination.                                                  *)
(***************************************************************************)

\* the entry file includes local B, B includes local C and C includes B,
\* where B is b.h (found as /p/b.h) and C is c.h (found as /p/sub/c.h)
CycleProject ==
    /\ <<"b.h", QUOTE>> \in file_includes[main_source_file]
    /\ <<"c.h", QUOTE>> \in file_includes["/p/b.h"]
    /\ <<"b.h", QUOTE>> \in file_includes["/p/sub/c.h"]

\* C1: on a project whose local headers B and C include each other, a run
\* started from an entry file that includes B eventually empties the
\* worklist and ends, with the directories of B and of C in the
\* include-path output.
C1_CycleTerminates ==
    (CycleProject /\ pc = "loop")
        ~> (/\ pc = "idle"
            /\ prev.kind = "resolve"
            /\ {"/p", "/p/sub"} \subseteq prev.include_paths)

(***************************************************************************)
(* C2: standard-header exclusion.                                          *)
(***************************************************************************)

\* the calls that reach the cache-wrapped lookups or the package backend
LookupCalls == {"get", "set", "pm_candidates", "pm_info"}

\* the last iteration popped a reference
Popped == step.kind \notin {"none", "start"}

\* C2: an iteration that pops a reference whose name is in
\* CPP_STANDARD_HEADERS, quoted or in angle brackets, calls neither a
\* cache-wrapped lookup nor the package backend.
C2_StandardExcluded ==
    (Popped /\ step.ref[1] \in CPP_STANDARD_HEADERS)
        => \A x \in step.calls : x[1] \notin LookupCalls

\* a quoted string.h was popped, while the project holds a file of that name
C2_Witness ==
    /\ step.kind = "skip"
    /\ step.ref = <<"string.h", QUOTE>>
    /\ find_local_file("string.h", project_root) # None

(***************************************************************************)
(* C3: local-closure completeness.                                         *)
(***************************************************************************)

\* the .cpp file next to a header
SourceBeside(header_path) == SplitExtRoot(header_path) \o ".cpp"

\* the entry file includes "B", found as b, and b includes "C", found as c
LocalChain(B, b, C, c) ==
    /\ <<B, QUOTE>> \in file_includes[main_source_file]
    /\ find_local_file(B, project_root) = Some(b)
    /\ <<C, QUOTE>> \in file_includes[b]
    /\ find_local_file(C, project_root) = Some(c)

\* C3: when a run has ended, for every quoted B of the entry file and every
\* quoted C of B, both found under the entry file's directory and neither
\* named like a standard header, the include paths hold the directories of
\* B and of C, and the sources hold B.cpp and C.cpp where these exist.
C3_LocalClosure ==
    prev.kind = "resolve" =>
        \A B, C \in HeaderNames \ CPP_STANDARD_HEADERS :
            \A b, c \in ProjectHeaders :
                LocalChain(B, b, C, c) =>
                    /\ {DirName(b), DirName(c)} \subseteq prev.include_paths
                    /\ \A h \in {b, c} :
                          SourceBeside(h) \in ProjectFiles
                              => SourceBeside(h) \in prev.source_files

\* a run ended on main.cpp -> "c.h" -> "b.h", with b.cpp beside b.h
C3_Witness ==
    /\ prev.kind = "resolve"
    /\ LocalChain("c.h", "/p/sub/c.h", "b.h", "/p/b.h")
    /\ {"/p", "/p/sub"} \subseteq prev.include_paths
    /\ "/p/b.cpp" \in prev.source_files

(***************************************************************************)
(* C4: disambiguation determinism.                                         *)
(***************************************************************************)

\* the entry-file symbols the header holds as whole words
WordCount(full_path) ==
    IF full_path \in DOMAIN SystemHeaderWords
    THEN Cardinality(entry_symbols \cap SystemHeaderWords[full_path])
    ELSE 0

\* the last iteration selected a candidate
Selected == step.kind \in {"skip_package", "package"}

\* C4: of several candidates the selected one has the largest count of
\* entry-file symbols and is the first of the list with that count; a sole
\* candidate is selected without scoring.  The list, the symbols and the
\* header texts thus fix the selection.
C4_Disambiguation ==
    Selected =>
        LET cs == step.candidates
        IN  IF Len(cs) = 1
            THEN /\ step.selected = cs[1]
                 /\ \A x \in step.calls : x[1] # "score"
            ELSE \E k \in DOMAIN cs :
                    /\ step.selected = cs[k]
                    /\ \A j \in DOMAIN cs :
                          WordCount(cs[j].full_path) <= WordCount(cs[k].full_path)
                    /\ \A j \in 1..(k - 1) :
                          WordCount(cs[j].full_path) < WordCount(cs[k].full_path)

\* a later candidate scored strictly highest and was selected
C4_Witness ==
    /\ Selected
    /\ Len(step.candidates) >= 2
    /\ step.selected # step.candidates[1]
    /\ \A j \in DOMAIN step.candidates :
          step.candidates[j] # step.selected
              => WordCount(step.candidates[j].full_path)
                 < WordCount(step.selected.full_path)

(***************************************************************************)
(* C5: toolchain suppression.                                              *)
(***************************************************************************)

\* the packages whose name starts with an IGNORE_PACKAGES entry
ToolchainPackages ==
    {p \in PackageNames : \E e \in IGNORE_PACKAGES : StartsWith(p, e)}

\* what the package would add to the outputs if its info were taken in
Contribution(p) == InfoOf[<<<<dpkg_db, TRUE>>, p>>]

\* C5: a toolchain package is never in the processed-package set, its
\* Package Info is never asked for (neither of the cache nor of the
\* backend), and its include directories and libraries are in no output.
C5_ToolchainSuppressed ==
    \A p \in ToolchainPackages :
        /\ p \notin processed_system_packages
        /\ \A x \in step.calls : ~(x[1] \in {"pm_info", "get", "set"} /\ x[Len(x)] = p)
        /\ store.kind = "db" => <<distro_id, p>> \notin DOMAIN store.packages
        /\ Contribution(p)[1] \cap all_include_paths = {}
        /\ Contribution(p)[2] \cap all_libs = {}
        /\ prev.kind = "resolve" =>
              /\ Contribution(p)[1] \cap prev.include_paths = {}
              /\ Contribution(p)[2] \cap prev.libs = {}

\* a toolchain package was the selected one of several candidates, and it
\* would have added a directory and a library
C5_Witness ==
    /\ step.kind = "skip_package"
    /\ step.selected.package \in ToolchainPackages
    /\ Len(step.candidates) > 1
    /\ Contribution(step.selected.package)[1] # {}
    /\ Contribution(step.selected.package)[2] # {}

(***************************************************************************)
(* C6: idempotence.                                                        *)
(***************************************************************************)

\* the while condition is false: the run is over but for the printing
Terminated == pc = "loop" /\ headers_to_process = <<>>

\* the tools behaved in both runs alike, as far as both used them
SameTools(w1, w2) ==
    /\ w1.search = "unknown" \/ w2.search = "unknown" \/ w1.search = w2.search
    /\ w1.list = "unknown" \/ w2.list = "unknown" \/ w1.list = w2.list

\* this run follows a run of the same options, with nothing cleared between
SecondRun ==
    /\ Terminated
    /\ prev.kind = "resolve"
    /\ prev.no_cache = ~cache.enabled
    /\ SameTools(prev.works, works)

\* C6: a run that follows a run of the same entry file and options, over
\* the same files and a backend that behaves the same, on the cache store
\* the first run left, ends with the same sources, include paths and
\* libraries as the first.
C6_Idempotence ==
    SecondRun =>
        /\ all_source_files = prev.source_files
        /\ all_include_paths = prev.include_paths
        /\ all_libs = prev.libs

\* the second run took a package in from the cache alone, and ended with the
\* first run's libraries
C6_Witness ==
    /\ SecondRun
    /\ cache.enabled
    /\ step.kind = "package"
    /\ \A x \in step.calls : x[1] \notin {"pm_candidates", "pm_info"}
    /\ all_libs # {}
    /\ all_libs = prev.libs

(***************************************************************************)
(* C9: the disabled cache.                                                 *)
(***************************************************************************)

\* a run under --no-cache
NoCacheRun == pc = "loop" /\ ~cache.enabled

\* every get of the disabled cache is None, and every lookup of the run
\* asks the backend
C9_Absent ==
    NoCacheRun =>
        /\ \A h \in HeaderNames : CacheGet(cache, store, "system_headers", h) = None
        /\ \A p \in PackageNames : CacheGet(cache, store, "packages", p) = None
        /\ step.kind \in {"no_candidates", "skip_package", "package"}
              => <<"pm_candidates", step.ref[1]>> \in step.calls
        /\ step.kind = "package"
              => <<"pm_info", step.selected.package>> \in step.calls

\* constructing the disabled cache, its sets and its close leave the store
C9_StoreKept ==
    /\ (pc = "idle" /\ pc' = "loop" /\ ~cache'.enabled) => store' = store
    /\ NoCacheRun => store' = store

\* C9: with a cache constructed disabled, every get is absent whatever the
\* store holds, the store is never changed by the run, and each
\* cache-wrapped lookup of the run calls the package backend.
C9_DisabledNoOp == []C9_Absent /\ [][C9_StoreKept]_vars

\* a --no-cache run took a package in from the backend while the store held
\* both the header's candidates and the package's info
C9_Witness ==
    /\ NoCacheRun
    /\ step.kind = "package"
    /\ store.kind = "db"
    /\ <<distro_id, step.ref[1]>> \in DOMAIN store.system_headers
    /\ <<distro_id, step.selected.package>> \in DOMAIN store.packages

(***************************************************************************)
(* The Cache class on its own: instances are opened, used and closed one   *)
(* after another on the same store, as successive processes do, and the    *)
(* store is cleared between instances.                                     *)
(***************************************************************************)

\* the distribution ids get_distro gives the instances
DistroIds == {"debian", "redhat"}

Tables == {"system_headers", "packages"}

\* one name, used as a header name and as a package name
ApiKeys == {"z.h"}

\* the values set: candidate lists and (include_paths, libs) pairs
ApiCandidates ==
    {<<>>, CandidatesOf[<<<<PlainDb, TRUE>>, "z.h">>],
     CandidatesOf[<<<<PlainDb, TRUE>>, "b.h">>]}

ApiInfos == {<<{}, {}>>, InfoOf[<<<<PlainDb, TRUE>>, "libbar-dev">>]}

ApiValues(table) == IF table = "system_headers" THEN ApiCandidates ELSE ApiInfos

CacheInit ==
    /\ file_includes = ProjectText({<<"z.h", ANGLE>>}, {}, {})
    /\ entry_symbols = PlainSymbols
    /\ dpkg_db = PlainDb
    /\ store \in {NoFile, OldSchemaFile}
    /\ pc = "api"
    /\ cache = NoCache
    /\ works = UnknownTools
    /\ NoLocals
    /\ step = NoStep
    /\ prev = [kind |-> "none"]
    /\ store_at_start = NoFile
    /\ written = <<>>
    /\ op = NoOp

\* no instance is open
NoInstance == cache = NoCache

\* Cache(distro_id, enabled)
CacheOpen ==
    /\ pc = "api"
    /\ NoInstance
    /\ \E d \in DistroIds, enabled \in BOOLEAN :
          /\ cache' = [CacheObject(d, enabled) EXCEPT !.open = TRUE]
          /\ store' = CacheConstructStore(enabled, store)
          /\ op' = [name |-> "open", distro |-> d, enabled |-> enabled]
    /\ UNCHANGED <<world, pc, works, locals, step, prev, store_at_start,
                   written>>

\* cache.set(table, key, value); written keeps what an enabled set stored
\* and whether the storing instance is still the open one
CacheDoSet ==
    /\ pc = "api"
    /\ ~NoInstance
    /\ \E table \in Tables, key \in ApiKeys :
          \E value \in ApiValues(table) :
             /\ store' \in CacheSet(cache, store, table, key, value)
             /\ written' =
                   IF cache.enabled
                   THEN (<<cache.distro_id, table, key>> :>
                            [value |-> value, fresh |-> TRUE]) @@ written
                   ELSE written
             /\ op' = [name |-> "set", distro |-> cache.distro_id,
                       enabled |-> cache.enabled, table |-> table, key |-> key]
    /\ UNCHANGED <<world, pc, cache, works, locals, step, prev, store_at_start>>

\* cache.get(table, key)
CacheDoGet ==
    /\ pc = "api"
    /\ ~NoInstance
    /\ \E table \in Tables, key \in ApiKeys :
          op' = [name |-> "get", distro |-> cache.distro_id,
                 enabled |-> cache.enabled, table |-> table, key |-> key,
                 result |-> CacheGet(cache, store, table, key)]
    /\ UNCHANGED <<world, store, pc, cache, works, locals, step, prev, store_at_start,
                   written>>

\* cache.close(), the end of the instance
CacheDoClose ==
    /\ pc = "api"
    /\ ~NoInstance
    /\ cache' = NoCache
    /\ written' = [k \in DOMAIN written |-> [written[k] EXCEPT !.fresh = FALSE]]
    /\ op' = [name |-> "close"]
    /\ UNCHANGED <<world, store, pc, works, locals, step, prev, store_at_start>>

\* Cache.clear(), by a process that holds no instance
CacheDoClear ==
    /\ pc = "api"
    /\ NoInstance
    /\ store' = CacheClearStore(store)
    /\ written' = <<>>
    /\ op' = [name |-> "clear", before |-> store]
    /\ UNCHANGED <<world, pc, cache, works, locals, step, prev, store_at_start>>

CacheNext ==
    \/ CacheOpen
    \/ CacheDoSet
    \/ CacheDoGet
    \/ CacheDoClose
    \/ CacheDoClear

CacheSpec == CacheInit /\ [][CacheNext]_vars

(***************************************************************************)
(* C7: cache round-trip.                                                   *)
(***************************************************************************)

\* what get gave equals what set was given: the same list of candidates;
\* the same include paths and the same libraries
SameValue(table, got, value) ==
    IF table = "system_headers" THEN got = value
    ELSE SetOf(got[1]) = value[1] /\ SetOf(got[2]) = value[2]

\* the last operation was a get by an enabled instance
EnabledGet == op.name = "get" /\ op.enabled

\* C7: a get by an enabled instance, for a (distribution, table, key) that
\* an enabled set stored since the last clear, returns a value equal to the
\* one last set, whether the setting instance is the getting one or one
\* closed before the getting one was opened.
C7_RoundTrip ==
    (EnabledGet /\ <<op.distro, op.table, op.key>> \in DOMAIN written)
        => /\ op.result # None
           /\ SameValue(op.table, op.result[1],
                        written[<<op.distro, op.table, op.key>>].value)

\* a later instance got back a package's two include paths and its library
C7_Witness ==
    /\ EnabledGet
    /\ op.table = "packages"
    /\ <<op.distro, op.table, op.key>> \in DOMAIN written
    /\ ~written[<<op.distro, op.table, op.key>>].fresh
    /\ Cardinality(written[<<op.distro, op.table, op.key>>].value[1]) = 2
    /\ op.result # None
    /\ Len(op.result[1][1]) = 2

(***************************************************************************)
(* C8: cache distribution isolation.                                       *)
(***************************************************************************)

\* what a new enabled instance of distribution d gets from the store
GetOf(d, st, table, key) ==
    CacheGet(CacheObject(d, TRUE), CacheConstructStore(TRUE, st), table, key)

\* a get returns nothing, or the value set under its own distribution and
\* table
C8_OwnValue ==
    (EnabledGet /\ op.result # None)
        => /\ <<op.distro, op.table, op.key>> \in DOMAIN written
           /\ SameValue(op.table, op.result[1],
                        written[<<op.distro, op.table, op.key>>].value)

\* a set changes no get of another distribution or of the other table
C8_Frame ==
    op'.name = "set" =>
        \A d \in DistroIds, table \in Tables, key \in ApiKeys :
            (d # op'.distro \/ table # op'.table)
                => GetOf(d, store', table, key) = GetOf(d, store, table, key)

\* C8: on a store set by instances of different distributions, a get under
\* distribution d returns only what a set under d stored in that table, or
\* None; a set under one distribution changes no get under another, and a
\* set in one table changes no get in the other.
C8_Isolation == []C8_OwnValue /\ [][C8_Frame]_vars

\* redhat got its own candidates for a key under which debian holds others
C8_Witness ==
    /\ EnabledGet
    /\ op.distro = "redhat"
    /\ op.table = "system_headers"
    /\ op.result # None
    /\ <<"debian", op.table, op.key>> \in DOMAIN written
    /\ <<"redhat", op.table, op.key>> \in DOMAIN written
    /\ written[<<"debian", op.table, op.key>>].value
          # written[<<"redhat", op.table, op.key>>].value
    /\ op.result[1] = written[<<"redhat", op.table, op.key>>].value

(***************************************************************************)
(* C10: clear is whole-store.                                              *)
(***************************************************************************)

\* C10: right after clear, a newly constructed enabled instance of any
\* distribution gets None for every table and key.
C10_ClearAll ==
    op.name = "clear" =>
        \A d \in DistroIds, table \in Tables, key \in ApiKeys :
            GetOf(d, store, table, key) = None

\* the cleared store held rows of both distributions in both tables
C10_Witness ==
    /\ op.name = "clear"
    /\ op.before.kind = "db"
    /\ \A d \in DistroIds, key \in ApiKeys :
          /\ <<d, key>> \in DOMAIN op.before.system_headers
          /\ <<d, key>> \in DOMAIN op.before.packages

(***************************************************************************)
(* C11: include-path provenance.                                           *)
(***************************************************************************)

\* the directories of the local headers resolved in this run
LocalDirs == {DirName(h) : h \in processed_local_headers}

\* the include paths and the libraries the Package Info of the processed
\* packages reports
ReportedPaths == UNION {Contribution(p)[1] : p \in processed_system_packages}

ReportedLibs == UNION {Contribution(p)[2] : p \in processed_system_packages}

\* C11: in every state of the resolution loop, every include path of the
\* output is the directory of a header in processed_local_headers or an
\* include path the Package Info of a package in processed_system_packages
\* reports, and every library of the output is one such a Package Info
\* reports.
C11_Provenance ==
    pc = "loop" =>
        /\ all_include_paths \subseteq LocalDirs \cup ReportedPaths
        /\ all_libs \subseteq ReportedLibs

\* the outputs hold a local header's directory, a package's include path
\* read from the cache, and a library
C11_Witness ==
    /\ pc = "loop"
    /\ step.kind = "package"
    /\ \A x \in step.calls : x[1] # "pm_info"
    /\ all_include_paths \cap LocalDirs # {}
    /\ all_include_paths \cap ReportedPaths # {}
    /\ all_include_paths \ LocalDirs # {}
    /\ all_libs # {}

(***************************************************************************)
(* C12: memoization hit.                                                   *)
(***************************************************************************)

\* the iterations that look a header up
SystemKinds == {"no_candidates", "skip_package", "package"}

\* an iteration of a run whose cache is enabled is about to happen
CachedIteration == pc = "loop" /\ cache.enabled /\ headers_to_process # <<>>

\* the store holds an entry of the run's distribution under the key
HeldHeader(st, header) ==
    st.kind = "db" /\ <<cache.distro_id, header>> \in DOMAIN st.system_headers

HeldPackage(st, package_name) ==
    st.kind = "db" /\ <<cache.distro_id, package_name>> \in DOMAIN st.packages

\* a lookup whose key the store holds does not ask the backend
C12_Step ==
    CachedIteration =>
        /\ (step'.kind \in SystemKinds /\ HeldHeader(store, step'.ref[1]))
              => <<"pm_candidates", step'.ref[1]>> \notin step'.calls
        /\ (step'.kind = "package" /\ HeldPackage(store, step'.selected.package))
              => <<"pm_info", step'.selected.package>> \notin step'.calls

\* C12: with an enabled cache, once a cache-wrapped lookup has stored its
\* result for a header name or a package name under the distribution, every
\* later cache-wrapped lookup of that key, in this run or a later one, reads
\* the entry and does not call the package backend, whatever the stored
\* value, an empty candidate list and an empty package info included.
C12_MemoHit == [][C12_Step]_vars

(***************************************************************************)
(* C13: no entry for a failed query.                                       *)
(***************************************************************************)

\* the iteration ran dpkg -S, and it failed
SearchFailed ==
    /\ step'.kind \in SystemKinds
    /\ <<"pm_candidates", step'.ref[1]>> \in step'.calls
    /\ works'.search = "no"

\* the iteration ran dpkg -L, and it failed
ListFailed ==
    /\ step'.kind = "package"
    /\ <<"pm_info", step'.selected.package>> \in step'.calls
    /\ works'.list = "no"

\* a failed query leaves the store without an entry for its key
C13_Step ==
    CachedIteration =>
        /\ (SearchFailed /\ ~HeldHeader(store, step'.ref[1]))
              => ~HeldHeader(store', step'.ref[1])
        /\ (ListFailed /\ ~HeldPackage(store, step'.selected.package))
              => ~HeldPackage(store', step'.selected.package)

\* what a later run reads from the store is what the working backend answers
C13_RealEntries ==
    store.kind = "db" =>
        /\ \A pk \in DOMAIN store.system_headers :
              JsonLoadsCandidates(store.system_headers[pk])
                  = CandidatesOf[<<<<dpkg_db, TRUE>>, pk[2]>>]
        /\ \A pk \in DOMAIN store.packages :
              <<SetOf(JsonLoadsStrings(store.packages[pk][1])),
                SetOf(JsonLoadsStrings(store.packages[pk][2]))>>
                  = InfoOf[<<<<dpkg_db, TRUE>>, pk[2]>>]

\* C13: a cache entry is created only by a backend query that succeeded:
\* when the tool is missing or exits non-zero the cache-wrapped lookup leaves
\* the store without an entry for the key, so that a later run reads from
\* the store only real results of the backend, never a stored empty one.
C13_OnlySuccessStored == [][C13_Step]_vars /\ []C13_RealEntries

(***************************************************************************)
(* C14: the resolved-header guard on pop.                                  *)
(***************************************************************************)

\* the quoted reference names a header that this run has resolved: the file
\* the walk finds for it is in processed_local_headers
AlreadyResolved(ref) ==
    /\ ref[2] = QUOTE
    /\ \E p \in processed_local_headers : find_local_file(ref[1], project_root) = Some(p)

\* the calls of the locator, the extractor and the package backend
ResolutionCalls == {"locate", "extract", "pm_candidates", "pm_info"}

\* popping an already resolved header drops it without a call
C14_Step ==
    (pc = "loop" /\ headers_to_process # <<>> /\ AlreadyResolved(Head(headers_to_process)))
        => /\ step'.kind = "skip"
           /\ \A x \in step'.calls : x[1] \notin ResolutionCalls
           /\ processed_local_headers' = processed_local_headers

\* C14: whenever a reference is popped whose header was resolved locally
\* earlier in the run, it is discarded without a call of the locator, the
\* extractor or the package backend, so each local header is located and
\* scanned at most once in a run.
C14_ResolvedGuard == [][C14_Step]_vars

(***************************************************************************)
(* C15: the push filter.                                                   *)
(***************************************************************************)

\* no reference is in the worklist twice
NoRepeat(l) == \A i, j \in DOMAIN l : l[i] = l[j] => i = j

\* C15: in every state the worklist holds no reference twice and no
\* reference to a header that is already in processed_local_headers; a
\* resolved header's includes are appended only if not yet resolved and not
\* already queued.
C15_PushFilter ==
    pc = "loop" =>
        /\ NoRepeat(headers_to_process)
        /\ \A i \in DOMAIN headers_to_process : ~AlreadyResolved(headers_to_process[i])

(***************************************************************************)
(* C16: local-to-system fallthrough.                                       *)
(***************************************************************************)

\* the last iteration took the system path for the name: it sampled the
\* entry file's symbols, looked the candidates up through the cache, and,
\* where it took a package in, marked it and asked for its Package Info
OnSystemPath(header_name) ==
    /\ step.kind \in SystemKinds
    /\ <<"symbols", main_source_file>> \in step.calls
    /\ <<"get", "system_headers", header_name>> \in step.calls
    /\ \A x \in step.calls : x[1] # "extract"
    /\ step.kind = "package" =>
          /\ <<"get", "packages", step.selected.package>> \in step.calls
          /\ step.selected.package \in processed_system_packages

\* C16: a quoted reference that is not a standard header and that the walk
\* under the entry file's directory does not find is processed by the
\* system path in the iteration that popped it, as an angle-bracket
\* reference of that name is; an angle-bracket reference never calls the
\* locator and is never resolved locally, even when the project holds a
\* file of its name.
C16_Fallthrough ==
    Popped =>
        /\ (/\ step.ref[2] = QUOTE
            /\ step.ref[1] \notin CPP_STANDARD_HEADERS
            /\ find_local_file(step.ref[1], project_root) = None)
              => /\ OnSystemPath(step.ref[1])
                 /\ <<"locate", step.ref[1]>> \in step.calls
        /\ step.ref[2] = ANGLE
              => /\ \A x \in step.calls : x[1] # "locate"
                 /\ step.kind # "local"
                 /\ step.ref[1] \notin CPP_STANDARD_HEADERS => OnSystemPath(step.ref[1])

\* a quoted z.h, which the project does not hold, brought its package in
C16_Witness ==
    /\ step.kind = "package"
    /\ step.ref = <<"z.h", QUOTE>>
    /\ find_local_file("z.h", project_root) = None
    /\ all_libs # {}

(***************************************************************************)
(* C17: one bad lookup never aborts the run.                               *)
(***************************************************************************)

\* an iteration whose lookup gave no candidate drops the header and nothing
\* else; a lookup whose dpkg -S failed gives no candidate
C17_Step ==
    (pc = "loop" /\ headers_to_process # <<>>) =>
        /\ step'.kind = "no_candidates" =>
              /\ headers_to_process' = Tail(headers_to_process)
              /\ UNCHANGED <<all_source_files, all_include_paths, all_libs,
                             processed_system_packages, processed_local_headers>>
              /\ pc' = "loop"
        /\ SearchFailed => step'.kind = "no_candidates"

\* after such an iteration the loop goes on: the next pop, or the end of the
\* run, is enabled
C17_GoesOn ==
    (pc = "loop" /\ step.kind = "no_candidates") => ENABLED LoopStep

\* C17: when the candidate lookup of a popped header gives no candidate, the
\* tool being missing or exiting non-zero included, the engine drops that
\* header, leaves the three outputs and the two processed sets as they were,
\* and goes on with the rest of the worklist.
C17_BadLookup == [][C17_Step]_vars /\ []C17_GoesOn

\* dpkg -S failed for a header while the outputs held a directory and the
\* worklist another header
C17_Witness ==
    /\ step.kind = "no_candidates"
    /\ works.search = "no"
    /\ <<"pm_candidates", step.ref[1]>> \in step.calls
    /\ headers_to_process # <<>>
    /\ all_include_paths # {}

(***************************************************************************)
(* C18: order independence of the outputs.  What a run must end with is    *)
(* worked out from the files, the backend and the cache as the run found   *)
(* them, by closures over sets in which no order occurs.                   *)
(***************************************************************************)

\* the file a reference resolves to locally, if any: quoted, not named like
\* a standard header, and found by the walk
LocalFileOf(ref) ==
    IF ref[2] = QUOTE /\ ref[1] \notin CPP_STANDARD_HEADERS
    THEN find_local_file(ref[1], project_root)
    ELSE None

\* the references reachable from R through the local headers
RECURSIVE RefClosure(_)
RefClosure(R) ==
    LET more == R \cup UNION {file_includes[LocalFileOf(r)[1]] :
                                 r \in {x \in R : LocalFileOf(x) # None}}
    IN  IF more = R THEN R ELSE RefClosure(more)

ReachedRefs == RefClosure(file_includes[main_source_file])

ReachedLocal == {LocalFileOf(r)[1] : r \in {x \in ReachedRefs : LocalFileOf(x) # None}}

\* the names that go to the package backend
ReachedSystem ==
    {r[1] : r \in {x \in ReachedRefs :
                      x[1] \notin CPP_STANDARD_HEADERS /\ LocalFileOf(x) = None}}

\* the candidates of a name: the non-empty list the cache held when the run
\* started, else the backend's answer in this run
CandidatesFor(header) ==
    LET held == CacheGet(cache, store_at_start, "system_headers", header)
    IN  IF held # None /\ held[1] # <<>> THEN held[1]
        ELSE CandidatesOf[<<<<dpkg_db, works.search = "yes">>, header>>]

\* the packages the run takes in
TakenPackages ==
    {p \in {best_candidate(CandidatesFor(h), entry_symbols).package :
               h \in {x \in ReachedSystem : CandidatesFor(x) # <<>>}} :
        ~IsIgnoredPackage(p)}

\* the Package Info of a package: what the cache held when the run started,
\* else the backend's answer in this run
InfoFor(package_name) ==
    LET held == CacheGet(cache, store_at_start, "packages", package_name)
    IN  IF held # None THEN <<SetOf(held[1][1]), SetOf(held[1][2])>>
        ELSE InfoOf[<<<<dpkg_db, works.list = "yes">>, package_name>>]

ExpectedSources ==
    {main_source_file} \cup ({SourceBeside(h) : h \in ReachedLocal} \cap ProjectFiles)

ExpectedIncludePaths ==
    {DirName(h) : h \in ReachedLocal} \cup UNION {InfoFor(p)[1] : p \in TakenPackages}

ExpectedLibs == UNION {InfoFor(p)[2] : p \in TakenPackages}

\* C18: for given files, backend and cache, a run that terminates ends with
\* the same sources, include paths and libraries whatever the order of the
\* initial worklist and whatever the order in which a resolved header's
\* includes are appended: with the sets the files, the backend and the cache
\* determine.
C18_OrderIndependent ==
    Terminated =>
        /\ all_source_files = ExpectedSources
        /\ all_include_paths = ExpectedIncludePaths
        /\ all_libs = ExpectedLibs

\* a run ended whose entry file includes two local headers, one of which
\* includes the other and a system header, so that several orders of
\* the worklist lead to the end
C18_Witness ==
    /\ Terminated
    /\ Cardinality(ReachedLocal) = 2
    /\ Cardinality(file_includes[main_source_file]) = 2
    /\ file_includes[main_source_file] \subseteq {r \in ReachedRefs : LocalFileOf(r) # None}
    /\ TakenPackages # {}
    /\ all_libs # {}

(***************************************************************************)
(* The three package managers' find_header_candidates on their own, each   *)
(* applied to what its tools print: every output is a list of lines, as    *)
(* run_command's stripped stdout is split by splitlines().                 *)
(***************************************************************************)

\* "\n".join(lines): the output as one string
RECURSIVE JoinLines(_)
JoinLines(lines) ==
    IF lines = <<>> THEN ""
    ELSE IF Len(lines) = 1 THEN lines[1]
    ELSE lines[1] \o "\n" \o JoinLines(Tail(lines))

\* s.rsplit(sep, 2)[0]: s up to the last but one sep, or the last, or all
RSplit2First(s, sep) ==
    LET at == Occurrences(s, sep)
    IN  IF at = {} THEN s
        ELSE IF Cardinality(at) = 1 THEN SubSeq(s, 1, SetMax(at) - 1)
        ELSE SubSeq(s, 1, SetMax(at \ {SetMax(at)}) - 1)

\* DebianManager.find_header_candidates on the output of dpkg -S
Debian_find_header_candidates(output) == ParseDpkgSearch(output, <<>>)

\* RedHatManager.find_header_candidates, the loop over file_list
RECURSIVE RpmFileLoop(_, _, _, _)
RpmFileLoop(file_list, package_name, header, candidates) ==
    IF file_list = <<>> THEN candidates
    ELSE RpmFileLoop(Tail(file_list), package_name, header,
            IF EndsWith(Head(file_list), "/" \o header)
            THEN Append(candidates,
                        [package |-> package_name, full_path |-> Head(file_list)])
            ELSE candidates)

\* RedHatManager.find_header_candidates on the outputs of rpm -qf,
\* repoquery --whatprovides and rpm -ql
RedHat_find_header_candidates(qf_output, repoquery_output, ql_output, header) ==
    IF qf_output = <<>> \/ \E i \in DOMAIN qf_output : Contains(qf_output[i], "not owned")
    THEN IF repoquery_output = <<>> THEN <<>>
         ELSE RpmFileLoop(ql_output, RSplit2First(repoquery_output[1], "-"), header, <<>>)
    ELSE RpmFileLoop(ql_output, JoinLines(qf_output), header, <<>>)

\* ArchManager.find_header_candidates, the loop over output.splitlines(): a
\* line without a tab raises in the unpacking and is passed over
RECURSIVE ParsePkgfile(_, _, _)
ParsePkgfile(lines, header, candidates) ==
    IF lines = <<>> THEN candidates
    ELSE LET line == Head(lines)
             tab == IF Occurrences(line, "\t") = {} THEN 0
                    ELSE SetMin(Occurrences(line, "\t"))
             package_name == SubSeq(line, 1, tab - 1)
             file_path == SubSeq(line, tab + 1, Len(line))
         IN  IF tab = 0 THEN ParsePkgfile(Tail(lines), header, candidates)
             ELSE IF ~EndsWith(file_path, "/" \o header)
             THEN ParsePkgfile(Tail(lines), header, candidates)
             ELSE IF \E k \in DOMAIN candidates : candidates[k].full_path = file_path
             THEN ParsePkgfile(Tail(lines), header, candidates)
             ELSE ParsePkgfile(Tail(lines), header,
                     Append(candidates, [package |-> package_name, full_path |-> file_path]))

\* ArchManager.find_header_candidates on the output of pkgfile -s
Arch_find_header_candidates(output, header) == ParsePkgfile(output, header, <<>>)

\* the lists of at most two of the given lines, repeated lines included
Outputs(lines) == {<<>>} \cup {<<a>> : a \in lines} \cup {<<a, b>> : a \in lines, b \in lines}

\* lines dpkg -S may print for */z.h: two packages, an architecture
\* qualifier, the same path once more with a blank behind it, a diversion
DpkgSearchLines ==
    {"libfoo-dev:amd64: /usr/include/foo/z.h",
     "libfoo-dev:i386: /usr/include/foo/z.h ",
     "libbar-dev: /usr/include/bar/z.h",
     "diversion by libc6 from: /usr/include/z.h",
     "no path found matching pattern"}

\* lines of rpm -qf /usr/include/z.h, of repoquery and of rpm -ql
RpmOwnerOutputs ==
    {<<>>, <<"foo-devel-1.0-1.x86_64">>,
     <<"file /usr/include/z.h is not owned by any package">>}

RepoqueryOutputs == {<<>>, <<"foo-devel-1.0-1.x86_64", "foo-devel-1.0-1.i686">>}

RpmListLines == {"/usr/include/foo/z.h", "/usr/include/z.h", "/usr/lib64/libfoo.so"}

\* lines pkgfile may print
PkgfileLines ==
    {"extra/foo\t/usr/include/foo/z.h", "community/foo\t/usr/include/foo/z.h",
     "extra/bar\t/usr/include/bar/xz.h", "extra/zed"}

BackendInit ==
    /\ file_includes = ProjectText({<<"z.h", ANGLE>>}, {}, {})
    /\ entry_symbols = PlainSymbols
    /\ dpkg_db = PlainDb
    /\ store = NoFile
    /\ pc = "backend"
    /\ cache = NoCache
    /\ works = UnknownTools
    /\ NoLocals
    /\ step = NoStep
    /\ prev = [kind |-> "none"]
    /\ store_at_start = NoFile
    /\ written = <<>>
    /\ op = NoOp

\* what a call of a manager leaves unchanged
BackendFrame ==
    UNCHANGED <<world, store, pc, cache, works, locals, step, prev, store_at_start,
                written>>

\* DebianManager().find_header_candidates("z.h")
DebianFind ==
    /\ pc = "backend"
    /\ \E output \in Outputs(DpkgSearchLines) :
          op' = [name |-> "find_header_candidates", manager |-> "debian",
                 outputs |-> <<output>>,
                 result |-> Debian_find_header_candidates(output)]
    /\ BackendFrame

\* RedHatManager().find_header_candidates("z.h")
RedHatFind ==
    /\ pc = "backend"
    /\ \E qf_output \in RpmOwnerOutputs, repoquery_output \in RepoqueryOutputs,
          ql_output \in Outputs(RpmListLines) :
          op' = [name |-> "find_header_candidates", manager |-> "redhat",
                 outputs |-> <<qf_output, repoquery_output, ql_output>>,
                 result |-> RedHat_find_header_candidates(
                               qf_output, repoquery_output, ql_output, "z.h")]
    /\ BackendFrame

\* ArchManager().find_header_candidates("z.h")
ArchFind ==
    /\ pc = "backend"
    /\ \E output \in Outputs(PkgfileLines) :
          op' = [name |-> "find_header_candidates", manager |-> "arch",
                 outputs |-> <<output>>,
                 result |-> Arch_find_header_candidates(output, "z.h")]
    /\ BackendFrame

BackendNext ==
    \/ DebianFind
    \/ RedHatFind
    \/ ArchFind

BackendSpec == BackendInit /\ [][BackendNext]_vars

(***************************************************************************)
(* C19: candidate deduplication.                                           *)
(***************************************************************************)

\* C19: for each of the three managers and for every output of its tools,
\* repeated lines naming the same path included, the list
\* find_header_candidates returns holds no two candidates with the same
\* full_path.
C19_Deduplicated ==
    op.name = "find_header_candidates" =>
        \A i, j \in DOMAIN op.result :
            op.result[i].full_path = op.result[j].full_path => i = j

(***************************************************************************)
(* C20: termination on acyclic projects.                                   *)
(***************************************************************************)

\* the local headers the file f includes, the files' texts being texts
IncludedLocal(texts, f) ==
    {LocalFileOf(r)[1] : r \in {x \in texts[f] : LocalFileOf(x) # None}}

\* the local headers reachable from those of S
RECURSIVE LocalReach(_, _)
LocalReach(texts, S) ==
    LET more == S \cup UNION {IncludedLocal(texts, h) : h \in S}
    IN  IF more = S THEN S ELSE LocalReach(texts, more)

\* no local header reachable from the entry file includes itself, directly
\* or through others
Acyclic(texts) ==
    \A h \in LocalReach(texts, IncludedLocal(texts, main_source_file)) :
        h \notin LocalReach(texts, IncludedLocal(texts, h))

\* the projects without such a cycle, worked out once
AcyclicTexts == {w[1] : w \in {x \in StartWorlds : Acyclic(x[1])}}

AcyclicProject == file_includes \in AcyclicTexts

\* the pops a reference in the worklist stands for: its own, and those of
\* the references its local file holds; finite when the project is acyclic
RECURSIVE PopsOf(_, _)
RECURSIVE PopsOfAll(_, _)
PopsOf(texts, ref) ==
    IF LocalFileOf(ref) = None THEN 1
    ELSE 1 + PopsOfAll(texts, texts[LocalFileOf(ref)[1]])

PopsOfAll(texts, R) ==
    IF R = {} THEN 0
    ELSE LET r == CHOOSE x \in R : TRUE
         IN  PopsOf(texts, r) + PopsOfAll(texts, R \ {r})

\* the pops a worklist stands for
RECURSIVE Work(_)
Work(l) == IF l = <<>> THEN 0 ELSE PopsOf(file_includes, Head(l)) + Work(Tail(l))

\* on an acyclic project every iteration lessens the work left; the step
\* taken on the empty worklist ends the run
C20_Step ==
    (pc = "loop" /\ AcyclicProject) =>
        IF headers_to_process # <<>>
        THEN pc' = "loop" /\ Work(headers_to_process') < Work(headers_to_process)
        ELSE pc' = "idle" /\ prev'.kind = "resolve"

\* a step of the loop is always there to take: nothing in main waits
C20_NotStuck == pc = "loop" => ENABLED LoopStep

\* C20: on a project whose graph of local headers reachable from the entry
\* file has no cycle, a started run empties the worklist and ends, whatever
\* the backend answers and although a header included along several paths
\* may be popped more than once: the loop can always step, each iteration
\* lessens a natural number (the pops the worklist stands for, a header
\* counted once for each path that includes it), and the step on the empty
\* worklist ends the run.
C20_AcyclicTerminates == [][C20_Step]_vars /\ []C20_NotStuck

\* the same as a property of the behaviours in which the loop keeps
\* stepping (FairSpec)
AcyclicRunsEnd ==
    (pc = "loop" /\ AcyclicProject) ~> (pc = "idle" /\ prev.kind = "resolve")

\* a run ended on a project without a cycle in which b.h is included by the
\* entry file and by c.h, which the entry file includes too
C20_Witness ==
    /\ pc = "idle"
    /\ prev.kind = "resolve"
    /\ AcyclicProject
    /\ {<<"b.h", QUOTE>>, <<"c.h", QUOTE>>} \subseteq file_includes[main_source_file]
    /\ "/p/b.h" \in IncludedLocal(file_includes, "/p/sub/c.h")
    /\ {"/p", "/p/sub"} \subseteq prev.include_paths

(***************************************************************************)
(* C21: cache transparency.  A run with the cache enabled is compared with *)
(* the run under --no-cache that ended before it, over the same files and  *)
(* the same installed packages.                                            *)
(***************************************************************************)

\* every entry the store holds for the distribution is the answer of the
\* backend whose dpkg -S and dpkg -L behave as ws and wl say: what runs over
\* that backend have stored
FilledBy(st, ws, wl) ==
    st.kind = "db" =>
        /\ \A pk \in DOMAIN st.system_headers :
              pk[1] = distro_id =>
                  JsonLoadsCandidates(st.system_headers[pk])
                      = CandidatesOf[<<<<dpkg_db, ws>>, pk[2]>>]
        /\ \A pk \in DOMAIN st.packages :
              pk[1] = distro_id =>
                  <<SetOf(JsonLoadsStrings(st.packages[pk][1])),
                    SetOf(JsonLoadsStrings(st.packages[pk][2]))>>
                      = InfoOf[<<<<dpkg_db, wl>>, pk[2]>>]

\* the backend behaved as ws and wl say in the run that ended last and in
\* this one, and it filled the store this run started on
SameBackend(ws, wl) ==
    /\ Agrees(works.search, ws) /\ Agrees(prev.works.search, ws)
    /\ Agrees(works.list, wl) /\ Agrees(prev.works.list, wl)
    /\ FilledBy(store_at_start, ws, wl)

\* a run with the cache enabled has reached its end, after a run under
\* --no-cache
CachedAfterPlain ==
    /\ Terminated
    /\ cache.enabled
    /\ prev.kind = "resolve"
    /\ prev.no_cache

\* C21: over the same files and a backend that behaves the same, a run with
\* the cache enabled, on an empty store or on a store that runs over this
\* backend have filled, ends with the same sources, include paths and
\* libraries as a run with the cache disabled.
C21_CacheTransparent ==
    CachedAfterPlain =>
        \A ws, wl \in BOOLEAN :
            SameBackend(ws, wl) =>
                /\ all_source_files = prev.source_files
                /\ all_include_paths = prev.include_paths
                /\ all_libs = prev.libs

\* the cached run took its package in from the store alone, which held both
\* the candidates and the package's info, and ended with the libraries of the
\* run without the cache, which had asked the backend
C21_Witness ==
    /\ CachedAfterPlain
    /\ SameBackend(TRUE, TRUE)
    /\ prev.works = [search |-> "yes", list |-> "yes"]
    /\ step.kind = "package"
    /\ \A x \in step.calls : x[1] \notin {"pm_candidates", "pm_info"}
    /\ HeldHeader(store_at_start, step.ref[1])
    /\ HeldPackage(store_at_start, step.selected.package)
    /\ all_libs # {}
    /\ all_libs = prev.libs

(***************************************************************************)
(* C22: standard-name shadowing.                                           *)
(***************************************************************************)

\* the project files the walk finds under a standard header's name
ShadowedFiles ==
    {find_local_file(n, project_root)[1] :
        n \in {x \in HeaderNames \cap CPP_STANDARD_HEADERS :
                  find_local_file(x, project_root) # None}}

\* the next pop is a quoted reference of a standard name that the project
\* holds a file of
ShadowedPop ==
    /\ pc = "loop"
    /\ headers_to_process # <<>>
    /\ Head(headers_to_process)[2] = QUOTE
    /\ Head(headers_to_process)[1] \in CPP_STANDARD_HEADERS
    /\ find_local_file(Head(headers_to_process)[1], project_root) # None

\* the pop drops the reference before any lookup: no call, nothing recorded,
\* nothing pushed
C22_Step ==
    ShadowedPop =>
        /\ step'.kind = "skip"
        /\ step'.calls = {}
        /\ headers_to_process' = Tail(headers_to_process)
        /\ UNCHANGED <<all_source_files, all_include_paths, all_libs,
                       processed_system_packages, processed_local_headers>>

\* the directory is in the include paths for another reason: a resolved
\* header lies in it, or a processed package reports it
OwedElsewhere(dir) == dir \in LocalDirs \cup ReportedPaths

\* a shadowed file is never resolved nor scanned, its sibling source is in
\* no source output, and its directory is in the include paths only if owed
\* to something else; in the project tree modelled a shadowed file is alone
\* in its directory, so no finished run has printed that directory
C22_Never ==
    \A f \in ShadowedFiles :
        /\ f \notin processed_local_headers
        /\ <<"extract", f>> \notin step.calls
        /\ SourceBeside(f) \notin all_source_files
        /\ pc = "loop" =>
              (DirName(f) \in all_include_paths => OwedElsewhere(DirName(f)))
        /\ prev.kind = "resolve" =>
              /\ SourceBeside(f) \notin prev.source_files
              /\ DirName(f) \notin prev.include_paths

\* C22: a quoted include whose name is in the standard-header set is
\* discarded before the local lookup, so even when the project tree holds a
\* file of that name its directory is never added to the include paths, its
\* sibling .cpp is never added to the sources and its own includes are never
\* pushed onto the worklist.
C22_Shadowing == [][C22_Step]_vars /\ []C22_Never

\* a run ended by dropping "string.h" while /p/std/string.h exists with
\* string.cpp beside it and an include of "c.h" in it; another local header
\* was resolved, and c.h was never queued
C22_Witness ==
    /\ Terminated
    /\ step.kind = "skip"
    /\ step.ref = <<"string.h", QUOTE>>
    /\ "/p/std/string.h" \in ShadowedFiles
    /\ SourceBeside("/p/std/string.h") \in ProjectFiles
    /\ file_includes["/p/std/string.h"] = {<<"c.h", QUOTE>>}
    /\ processed_local_headers = {"/p/b.h"}
    /\ all_include_paths = {"/p"}

(***************************************************************************)
(* C23: only the entry file and the resolved headers are scanned.          *)
(***************************************************************************)

\* the files whose includes this run has extracted
ScannedFiles == {main_source_file} \cup processed_local_headers

ScannedRefs == UNION {file_includes[f] : f \in ScannedFiles}

\* the sibling sources the run has added, and the references only they make
SiblingSources == all_source_files \ {main_source_file}

SiblingOnlyRefs == UNION {file_includes[f] : f \in SiblingSources} \ ScannedRefs

\* the packages that own a header of the name
Owners(header_name) ==
    LET owned == CandidatesOf[<<<<dpkg_db, TRUE>>, header_name>>]
    IN  {owned[k].package : k \in DOMAIN owned}

\* the packages that could serve a sibling source's reference and no scanned
\* reference
SiblingOnlyPackages ==
    UNION {Owners(r[1]) : r \in SiblingOnlyRefs}
        \ UNION {Owners(r[1]) : r \in ScannedRefs}

\* C23: the include directives of a sibling .cpp file added to the sources
\* are never extracted: every extraction of an iteration is of a resolved
\* header, every reference in the worklist comes from the entry file or from
\* a resolved local header, every processed package owns a header so
\* referenced, and a package that only a sibling source needs is neither in
\* the processed-package set nor behind an include path or a library of the
\* outputs.
C23_OnlyScanned ==
    pc = "loop" =>
        /\ \A x \in step.calls :
              x[1] = "extract" =>
                  /\ x[2] \in processed_local_headers
                  /\ x[2] \notin SiblingSources
        /\ SetOf(headers_to_process) \subseteq ScannedRefs
        /\ \A p \in processed_system_packages :
              \E r \in ScannedRefs : p \in Owners(r[1])
        /\ \A p \in SiblingOnlyPackages :
              /\ p \notin processed_system_packages
              /\ Contribution(p)[1] \cap all_include_paths = {}
              /\ Contribution(p)[2] \cap all_libs = {}

\* a run ended with /p/b.cpp among the sources, whose <z.h> no scanned file
\* includes: the package that would serve it was left out, while the package
\* of a scanned reference was taken in
C23_Witness ==
    /\ Terminated
    /\ "/p/b.cpp" \in all_source_files
    /\ <<"z.h", ANGLE>> \in SiblingOnlyRefs
    /\ "libfoo-dev" \in SiblingOnlyPackages
    /\ processed_system_packages = {"libbar-dev"}
    /\ all_libs = {"bar"}

====
